---- MODULE Spec2Model ----
(***************************************************************************)
(* Model of src/index.js: a Node.js script that resolves a Duolingo JWT    *)
(* and a lesson count, decodes the user id from the JWT, fetches the       *)
(* user's language pair and then, lesson by lesson, creates a practice     *)
(* session (POST) and completes it (PUT), adding up the reported XP.       *)
(*                                                                         *)
(* main() is an async function: the code between two awaits runs           *)
(* atomically on the event loop, so the model has one action per such      *)
(* stretch of code.  The server (status, body text, or a rejected fetch)   *)
(* and the process inputs are the environment, drawn from small sets.      *)
(*                                                                         *)
(* JavaScript values are records tagged by t: "undefined", "null", "num",  *)
(* "str" (a string held as a TLA+ string), "chars" (a string held as a     *)
(* sequence of characters, where the code looks inside it) and "obj".      *)
(***************************************************************************)
EXTENDS Integers, Sequences, FiniteSets, TLC

\* ------------------------------------------------------------------ bounds

\* Largest lesson count written in LESSONS.
MaxLessons == 3

\* ------------------------------------------------------- JavaScript values

Undefined == [t |-> "undefined"]
Null == [t |-> "null"]
JNum(n) == [t |-> "num", n |-> n]
JStr(s) == [t |-> "str", s |-> s]
Chars(c) == [t |-> "chars", c |-> c]
JObj(f) == [t |-> "obj", f |-> f]
EmptyObj == JObj([k \in {} |-> Undefined])

\* What JSON.parse throws on text that is not JSON.
SyntaxError == [t |-> "SyntaxError"]

\* x ?? y
Nullish(v) == v.t \in {"undefined", "null"}
Coalesce(v, d) == IF Nullish(v) THEN d ELSE v

\* !v is true
Falsy(v) ==
    \/ Nullish(v)
    \/ v.t = "str" /\ v.s = ""
    \/ v.t = "chars" /\ v.c = <<>>
    \/ v.t = "num" /\ v.n = 0

\* v.k for a value that is neither null nor undefined (those throw a TypeError,
\* which the callers decide before they read).
GetField(v, k) ==
    IF v.t = "obj" /\ k \in DOMAIN v.f THEN v.f[k] ELSE Undefined

\* `${v}` for the values interpolated into a URL.
TemplateString(v) ==
    CASE v.t = "str" -> v.s
      [] v.t = "undefined" -> "undefined"
      [] v.t = "null" -> "null"
      [] OTHER -> "[object Object]"

\* A JavaScript number that may be NaN.
NaN == [nan |-> TRUE, n |-> 0]
Number(n) == [nan |-> FALSE, n |-> n]

\* ---------------------------------------------------------------- parseInt

Digits == <<"0", "1", "2", "3", "4", "5", "6", "7", "8", "9">>
IsDigit(ch) == \E d \in 1..10 : Digits[d] = ch
DigitValue(ch) == (CHOOSE d \in 1..10 : Digits[d] = ch) - 1
DigitChar(n) == Digits[n + 1]

RECURSIVE TrimStart(_)
TrimStart(s) ==
    IF s # <<>> /\ Head(s) = " " THEN TrimStart(Tail(s)) ELSE s

RECURSIVE DigitPrefix(_)
DigitPrefix(s) ==
    IF s # <<>> /\ IsDigit(Head(s)) THEN <<Head(s)>> \o DigitPrefix(Tail(s)) ELSE <<>>

RECURSIVE DecimalValue(_, _)
DecimalValue(s, acc) ==
    IF s = <<>> THEN acc ELSE DecimalValue(Tail(s), 10 * acc + DigitValue(Head(s)))

\* ToString of what parseInt is given: a string as it is, the number 1 as "1".
ToChars(v) ==
    IF v.t = "chars" THEN v.c ELSE <<DigitChar(v.n)>>

\* parseInt(v, 10): leading white space is skipped, a sign is read, then the
\* longest run of digits; no digit at all gives NaN.
parseInt(v) ==
    LET s == TrimStart(ToChars(v))
        neg == s # <<>> /\ Head(s) = "-"
        body == IF s # <<>> /\ Head(s) \in {"-", "+"} THEN Tail(s) ELSE s
        ds == DigitPrefix(body)
    IN  IF ds = <<>> THEN NaN
        ELSE Number(IF neg THEN 0 - DecimalValue(ds, 0) ELSE DecimalValue(ds, 0))

\* --------------------------------------------------------- getCurrentDate

\* String(n).padStart(2, '0') for 0 <= n <= 99
PadStart2(n) ==
    IF n < 10 THEN <<"0", DigitChar(n)>> ELSE <<DigitChar(n \div 10), DigitChar(n % 10)>>

\* String(year) for a four-digit year
YearChars(y) ==
    <<DigitChar(y \div 1000), DigitChar((y \div 100) % 10),
      DigitChar((y \div 10) % 10), DigitChar(y % 10)>>

\* now: [year, month (0-11, as getMonth gives it), day]
getCurrentDate(now) ==
    YearChars(now.year) \o <<"-">> \o PadStart2(now.month + 1) \o <<"-">> \o PadStart2(now.day)

\* The clock reading of the run: 7 March 2025.
Dates == {[year |-> 2025, month |-> 2, day |-> 7]}

\* ------------------------------------------------------------------ tokens

\* A token is a sequence of characters in which "." separates the segments; a
\* run of base64 characters is written as one element.
HeaderB64 == "eyJhbGciOiJIUzI1NiJ9"
SignatureB64 == "c2ln"

\* String.prototype.split("."): the segments between the dots; the empty string
\* gives one empty segment.
RECURSIVE SplitFrom(_, _)
SplitFrom(s, cur) ==
    IF s = <<>> THEN <<cur>>
    ELSE IF Head(s) = "." THEN <<cur>> \o SplitFrom(Tail(s), <<>>)
    ELSE SplitFrom(Tail(s), Append(cur, Head(s)))
Split(s) == SplitFrom(s, <<>>)

\* arr[k] of JavaScript (k counted from 0): undefined past the end.
At(arr, k) == IF k + 1 <= Len(arr) THEN Chars(arr[k + 1]) ELSE Undefined

\* Buffer.from(segment, "base64").toString() on the segments the tokens below
\* carry; Buffer.from is lenient (missing padding is accepted, the empty string
\* decodes to the empty string).
Base64ToString(seg) ==
    IF seg = <<>> THEN ""
    ELSE CASE seg[1] = "eyJzdWIiOiJ1MSJ9" -> "{\"sub\":\"u1\"}"
           [] seg[1] = "eyJzdWIiOiJ1MiJ9" -> "{\"sub\":\"u2\"}"
           [] seg[1] = "e30" -> "{}"
           [] seg[1] = "bnVsbA" -> "null"
           [] seg[1] = "bm90anNvbg" -> "notjson"
           [] seg[1] = HeaderB64 -> "{\"alg\":\"HS256\"}"
           [] OTHER -> "sig"

\* JSON.parse on the texts of this model: the payloads above and the response
\* bodies below.  Anything else is not JSON.
JSONParse(text) ==
    CASE text = "{\"sub\":\"u1\"}" -> JObj([sub |-> JStr("u1")])
      [] text = "{\"sub\":\"u2\"}" -> JObj([sub |-> JStr("u2")])
      [] text = "{\"alg\":\"HS256\"}" -> JObj([alg |-> JStr("HS256")])
      [] text = "{}" -> EmptyObj
      [] text = "null" -> Null
      [] text = "{\"fromLanguage\":\"en\",\"learningLanguage\":\"es\"}" ->
            JObj([fromLanguage |-> JStr("en"), learningLanguage |-> JStr("es")])
      [] text = "{\"fromLanguage\":\"en\"}" -> JObj([fromLanguage |-> JStr("en")])
      [] text = "{\"fromLanguage\":\"en\",\"learningLanguage\":\"\"}" ->
            JObj([fromLanguage |-> JStr("en"), learningLanguage |-> JStr("")])
      [] text = "{\"learningLanguage\":\"es\"}" -> JObj([learningLanguage |-> JStr("es")])
      [] text = "{\"id\":\"s1\"}" -> JObj([id |-> JStr("s1")])
      [] text = "{\"id\":\"s2\"}" -> JObj([id |-> JStr("s2")])
      [] text = "{\"xpGain\":null}" -> JObj([xpGain |-> Null])
      [] text = "{\"xpGain\":10}" -> JObj([xpGain |-> JNum(10)])
      [] text = "{\"xpGain\":15}" -> JObj([xpGain |-> JNum(15)])
      [] OTHER -> SyntaxError

TokenOf(payload) == <<HeaderB64, ".", payload, ".", SignatureB64>>

\* The tokens a run may be given: three segments with a sub, three segments
\* whose payload is {} / null / not JSON, one segment only, an empty second
\* segment, and two segments with a sub.
Tokens ==
    { TokenOf("eyJzdWIiOiJ1MSJ9"), TokenOf("e30"),
      TokenOf("bnVsbA"), TokenOf("bm90anNvbg"),
      <<HeaderB64>>, <<HeaderB64, ".">>, <<HeaderB64, ".", "eyJzdWIiOiJ1MSJ9">> }

\* process.env.DUOLINGO_JWT: unset, the empty string, or a token.
EnvJWTValues == {Undefined, Chars(<<>>)} \cup {Chars(tk) : tk \in Tokens}

\* process.argv[2]: not given, or a token.
ArgvValues == {Undefined, Chars(TokenOf("eyJzdWIiOiJ1MiJ9"))}

\* process.env.LESSONS: unset, a count 0..MaxLessons, or text that is not a count.
LessonsValues ==
    {Undefined} \cup {Chars(<<DigitChar(n)>>) : n \in 0..MaxLessons}
    \cup {Chars(<<"a", "b", "c">>), Chars(<<>>), Chars(<<"-", "1">>),
          Chars(<<" ", "2">>), Chars(<<"1", "x">>)}

\* --------------------------------------------------------------- responses

\* What the server may answer: a response with a status and a body text, or no
\* response at all (fetch rejects).
Rejected == [rejected |-> TRUE, status |-> 0, text |-> ""]
Response(status, text) == [rejected |-> FALSE, status |-> status, text |-> text]

\* Response.ok
\* Variant: the status is never looked at.
ResponseOkAlways(r) == TRUE
ResponseOk(r) == 200 <= r.status /\ r.status <= 299

LangResponses ==
    {Rejected, Response(401, "Unauthorized"), Response(500, "{}"),
     Response(200, "<html>"), Response(200, "null"), Response(200, "{}"),
     Response(200, "{\"fromLanguage\":\"en\"}"),
     Response(200, "{\"learningLanguage\":\"es\"}"),
     Response(200, "{\"fromLanguage\":\"en\",\"learningLanguage\":\"\"}"),
     Response(200, "{\"fromLanguage\":\"en\",\"learningLanguage\":\"es\"}")}

SessionResponses ==
    {Rejected, Response(403, "{\"id\":\"s1\"}"), Response(401, "Unauthorized"),
     Response(200, "<html>"), Response(200, "null"), Response(200, "{}"),
     Response(200, "{\"id\":\"s1\"}"), Response(201, "{\"id\":\"s2\"}")}

FinalResponses ==
    {Rejected, Response(401, "Unauthorized"), Response(500, "{\"xpGain\":10}"),
     Response(200, "<html>"), Response(200, "null"), Response(200, "{}"),
     Response(200, "{\"xpGain\":null}"), Response(200, "{\"xpGain\":10}"),
     Response(201, "{\"xpGain\":15}")}

\* ------------------------------------------------------------------- state

VARIABLES
    envJWT,           \* process.env.DUOLINGO_JWT
    argvJWT,          \* process.argv[2]
    envLESSONS,       \* process.env.LESSONS
    now,              \* the clock reading of getCurrentDate
    pc,               \* where main() stands: the await it is suspended at
    DUOLINGO_JWT,     \* main's locals, Undefined until assigned
    lessonsToRun,
    apiDate,
    sub,
    fromLanguage,
    learningLanguage,
    totalXp,
    i,
    session,
    requests,         \* every fetch call made, in order
    responses,        \* what each fetch call was answered with, in order
    inflight,         \* the indexes (in requests) of the calls not yet answered
    error,            \* what main()'s promise was rejected with
    summary,          \* the total printed by the line "Sucesso! ..."
    errorPrinted,     \* the catch handler wrote its error summary
    hintPrinted,      \* the catch handler wrote its hint about the JWT
    exitStatus        \* the exit status of the process, once it has ended

inputs == <<envJWT, argvJWT, envLESSONS, now>>
config == <<DUOLINGO_JWT, lessonsToRun, apiDate, sub>>
langs == <<fromLanguage, learningLanguage>>
network == <<requests, responses, inflight>>
output == <<summary, errorPrinted, hintPrinted, exitStatus>>
vars == <<inputs, pc, config, langs, totalXp, i, session, network, error, output>>

NoError == [site |-> "none", kind |-> "none", status |-> 0]
Thrown(site, kind, status) == [site |-> site, kind |-> kind, status |-> status]

Init ==
    /\ envJWT \in EnvJWTValues
    /\ argvJWT \in ArgvValues
    /\ envLESSONS \in LessonsValues
    /\ now \in Dates
    /\ pc = "start"
    /\ DUOLINGO_JWT = Undefined
    /\ lessonsToRun = NaN
    /\ apiDate = <<>>
    /\ sub = Undefined
    /\ fromLanguage = Undefined
    /\ learningLanguage = Undefined
    /\ totalXp = 0
    /\ i = 0
    /\ session = Undefined
    /\ requests = <<>>
    /\ responses = <<>>
    /\ inflight = {}
    /\ error = NoError
    /\ summary = Undefined
    /\ errorPrinted = FALSE
    /\ hintPrinted = FALSE
    /\ exitStatus = Undefined

\* ----------------------------------------------------------------- helpers

\* process.env.DUOLINGO_JWT ?? process.argv[2]
\* Variant: the argument takes precedence over the environment.
ResolveJWTArgvFirst(env, argv) == Coalesce(argv, env)
ResolveJWT(env, argv) == Coalesce(env, argv)

\* parseInt(process.env.LESSONS ?? 1, 10)
ResolveLessons(env) == parseInt(Coalesce(env, JNum(1)))

\* const { sub } = JSON.parse(Buffer.from(jwt.split(".")[1], "base64").toString()):
\* what is thrown, if anything, and the sub read otherwise.  Buffer.from throws a
\* TypeError on undefined, JSON.parse a SyntaxError, destructuring null a TypeError;
\* a payload without sub gives undefined and throws nothing.
DecodeSub(jwt) ==
    LET seg == At(Split(jwt.c), 1)
        parsed == JSONParse(Base64ToString(seg.c))
    IN  IF seg = Undefined THEN [thrown |-> "TypeError", sub |-> Undefined]
        ELSE IF parsed = SyntaxError THEN [thrown |-> "SyntaxError", sub |-> Undefined]
        ELSE IF parsed = Null THEN [thrown |-> "TypeError", sub |-> Undefined]
        ELSE [thrown |-> "none", sub |-> GetField(parsed, "sub")]

\* The headers object: only the Authorization header depends on the run.
Headers(jwt) == [Authorization |-> <<"Bearer ">> \o jwt.c]

GetRequest(date, jwt, s) ==
    [method |-> "GET", date |-> date, path |-> <<"users", TemplateString(s)>>,
     headers |-> Headers(jwt), body |-> Undefined]

\* createSessionBody, without its constant list of challenge types.
PostRequest(date, jwt, from, learning) ==
    [method |-> "POST", date |-> date, path |-> <<"sessions">>,
     headers |-> Headers(jwt),
     body |-> JObj([fromLanguage |-> from, learningLanguage |-> learning,
                    isFinalLevel |-> FALSE, isV2 |-> TRUE, juicy |-> TRUE,
                    smartTipsVersion |-> 1, type |-> "GLOBAL_PRACTICE"])]

\* { ...session }: the own fields of an object, nothing for a number or a boolean.
Spread(v) == IF v.t = "obj" THEN v.f ELSE [k \in {} |-> Undefined]

\* completeSessionBody, without its two clock readings.
PutRequest(date, jwt, sess) ==
    [method |-> "PUT", date |-> date,
     path |-> <<"sessions", TemplateString(GetField(sess, "id"))>>,
     headers |-> Headers(jwt),
     body |-> JObj([heartsLeft |-> 3, enableBonusPoints |-> TRUE, failed |-> FALSE,
                    maxInLessonStreak |-> 10, shouldLearnThings |-> TRUE]
                   @@ Spread(sess))]

\* i < lessonsToRun: false when lessonsToRun is NaN.
LoopTest(k, n) == ~n.nan /\ k < n.n

\* response.xpGain || 0
xpGained(response) ==
    LET x == GetField(response, "xpGain") IN IF Falsy(x) THEN 0 ELSE x.n

\* totalXp += xpGained
\* Variant: = in place of +=.
AddXpOverwrite(total, xp) == xp
AddXp(total, xp) == total + xp

\* error.message.includes('401') || error.message.includes('Unauthorized'): of the
\* messages main() throws, only "... Status: 401" matches.
MentionsUnauthorized(e) == e.status = 401

\* What the code after "await fetch(...)" / "await response.text()" throws on the
\* answer r to the language request, NoError if it goes on (lines 55-80).
\* Variant: without the test on the two language fields (lines 76-80).
LangOutcomeNoFieldCheck(r) ==
    IF r.rejected THEN Thrown("fetch", "TypeError", 0)
    ELSE IF ~ResponseOk(r) THEN Thrown("langStatus", "Error", r.status)
    ELSE IF JSONParse(r.text) = SyntaxError THEN Thrown("langParse", "Error", 0)
    ELSE IF JSONParse(r.text) = Null THEN Thrown("langFields", "TypeError", 0)
    ELSE NoError
LangOutcome(r) ==
    IF r.rejected THEN Thrown("fetch", "TypeError", 0)
    ELSE IF ~ResponseOk(r) THEN Thrown("langStatus", "Error", r.status)
    ELSE IF JSONParse(r.text) = SyntaxError THEN Thrown("langParse", "Error", 0)
    ELSE IF JSONParse(r.text) = Null THEN Thrown("langFields", "TypeError", 0)
    ELSE IF \/ Falsy(GetField(JSONParse(r.text), "fromLanguage"))
            \/ Falsy(GetField(JSONParse(r.text), "learningLanguage"))
         THEN Thrown("langFields", "Error", 0)
    ELSE NoError

\* The same for the answer to a create-session request (lines 116-139): the log
\* line that reads session.id throws a TypeError when the body is null.
SessionOutcome(r) ==
    IF r.rejected THEN Thrown("fetch", "TypeError", 0)
    ELSE IF ~ResponseOk(r) THEN Thrown("sessionStatus", "Error", r.status)
    ELSE IF JSONParse(r.text) = SyntaxError THEN Thrown("sessionParse", "Error", 0)
    ELSE IF JSONParse(r.text) = Null THEN Thrown("sessionId", "TypeError", 0)
    ELSE NoError

\* The same for the answer to a complete-session request (lines 157-180):
\* response.xpGain throws a TypeError when the body is null.
FinalOutcome(r) ==
    IF r.rejected THEN Thrown("fetch", "TypeError", 0)
    ELSE IF ~ResponseOk(r) THEN Thrown("finalStatus", "Error", r.status)
    ELSE IF JSONParse(r.text) = SyntaxError THEN Thrown("finalParse", "Error", 0)
    ELSE IF JSONParse(r.text) = Null THEN Thrown("xpGain", "TypeError", 0)
    ELSE NoError

\* The fetch calls one "await fetch(req)" makes.
\* Variant: the call is made a second time without awaiting the first.
FetchTwice(req) == <<req, req>>
Fetch(req) == <<req>>

\* The network's part of a step: the pending call is answered with r (when the
\* step resumes from an await fetch) and the calls in reqs are made.
Answer(r) ==
    /\ responses' = Append(responses, r)
    /\ inflight' = inflight \ {Len(responses) + 1}
    /\ requests' = requests
Call(reqs) ==
    /\ requests' = requests \o reqs
    /\ inflight' = inflight \cup {Len(requests) + k : k \in 1..Len(reqs)}
    /\ responses' = responses
AnswerAndCall(r, reqs) ==
    /\ responses' = Append(responses, r)
    /\ requests' = requests \o reqs
    /\ inflight' = (inflight \ {Len(responses) + 1})
                   \cup {Len(requests) + k : k \in 1..Len(reqs)}

\* main() throws e: its promise is rejected.
Throw(e) ==
    /\ pc' = "rejected"
    /\ error' = e

\* -------------------------------------------------------------------- steps

\* Lines 24-58: configuration, validation, the user id, the language request.
Start ==
    /\ pc = "start"
    /\ LET jwt == ResolveJWT(envJWT, argvJWT)
           decoded == DecodeSub(jwt)
       IN  /\ DUOLINGO_JWT' = jwt
           /\ lessonsToRun' = ResolveLessons(envLESSONS)
           /\ apiDate' = getCurrentDate(now)
           /\ IF Falsy(jwt)
              THEN /\ Throw(Thrown("noJWT", "Error", 0))
                   /\ UNCHANGED <<sub, network>>
              ELSE IF decoded.thrown # "none"
              THEN /\ Throw(Thrown("decodeToken", decoded.thrown, 0))
                   /\ UNCHANGED <<sub, network>>
              ELSE /\ sub' = decoded.sub
                   /\ Call(Fetch(GetRequest(apiDate', jwt, decoded.sub)))
                   /\ pc' = "awaitLang"
                   /\ error' = error
    /\ UNCHANGED <<inputs, langs, totalXp, i, session, output>>

\* Lines 185-190 and 87-123: the loop test for lesson k with the total at total;
\* either the next create-session request is made or the summary is printed and
\* main() returns.  r is the answer this step resumed with, if any.
LoopHead(k, total, from, learning, r, resumed) ==
    IF LoopTest(k, lessonsToRun)
    THEN /\ IF resumed
            THEN AnswerAndCall(r, Fetch(PostRequest(apiDate, DUOLINGO_JWT, from, learning)))
            ELSE Call(Fetch(PostRequest(apiDate, DUOLINGO_JWT, from, learning)))
         /\ pc' = "awaitSession"
         /\ summary' = summary
    ELSE /\ IF resumed THEN Answer(r) ELSE UNCHANGED network
         /\ pc' = "resolved"
         /\ summary' = JNum(total)

\* Lines 55-123: the language answer arrives; on success the loop is entered.
LangResponse ==
    /\ pc = "awaitLang"
    /\ \E r \in LangResponses :
        IF LangOutcome(r) # NoError
        THEN /\ Throw(LangOutcome(r))
             /\ Answer(r)
             /\ UNCHANGED <<langs, totalXp, i, summary>>
        ELSE /\ fromLanguage' = GetField(JSONParse(r.text), "fromLanguage")
             /\ learningLanguage' = GetField(JSONParse(r.text), "learningLanguage")
             /\ totalXp' = 0
             /\ i' = 0
             /\ LoopHead(0, 0, fromLanguage', learningLanguage', r, TRUE)
             /\ error' = error
    /\ UNCHANGED <<inputs, config, session, errorPrinted, hintPrinted, exitStatus>>

\* Lines 116-141: the create-session answer arrives; on success the first pause starts.
SessionResponse ==
    /\ pc = "awaitSession"
    /\ \E r \in SessionResponses :
        /\ Answer(r)
        /\ IF SessionOutcome(r) # NoError
           THEN /\ Throw(SessionOutcome(r))
                /\ session' = session
           ELSE /\ session' = JSONParse(r.text)
                /\ pc' = "sleep1"
                /\ error' = error
    /\ UNCHANGED <<inputs, config, langs, totalXp, i, output>>

\* Lines 141-164: the first pause ends; the complete-session request is made.
Sleep1Done ==
    /\ pc = "sleep1"
    /\ Call(Fetch(PutRequest(apiDate, DUOLINGO_JWT, session)))
    /\ pc' = "awaitFinal"
    /\ UNCHANGED <<inputs, config, langs, totalXp, i, session, error, output>>

\* Lines 157-185: the complete-session answer arrives; on success the XP is added
\* and the second pause starts.
FinalResponse ==
    /\ pc = "awaitFinal"
    /\ \E r \in FinalResponses :
        /\ Answer(r)
        /\ IF FinalOutcome(r) # NoError
           THEN /\ Throw(FinalOutcome(r))
                /\ totalXp' = totalXp
           ELSE /\ totalXp' = AddXp(totalXp, xpGained(JSONParse(r.text)))
                /\ pc' = "sleep2"
                /\ error' = error
    /\ UNCHANGED <<inputs, config, langs, i, session, output>>

\* Lines 185-190 and 87: the second pause ends; i++ and the loop test.
Sleep2Done ==
    /\ pc = "sleep2"
    /\ i' = i + 1
    /\ LoopHead(i + 1, totalXp, fromLanguage, learningLanguage, Rejected, FALSE)
    /\ UNCHANGED <<inputs, config, langs, totalXp, session, error,
                   errorPrinted, hintPrinted, exitStatus>>

\* Lines 194-206: the handler of main().catch prints the error and returns.
Catch ==
    /\ pc = "rejected"
    /\ errorPrinted' = TRUE
    /\ hintPrinted' = MentionsUnauthorized(error)
    /\ pc' = "caught"
    /\ UNCHANGED <<inputs, config, langs, totalXp, i, session, network, error,
                   summary, exitStatus>>

\* Nothing is left to run: the process ends.  No line of the script sets
\* process.exitCode or calls process.exit, and the rejection was handled, so the
\* exit status is 0 on both paths.
Exit ==
    /\ pc \in {"resolved", "caught"}
    /\ exitStatus' = JNum(0)
    /\ pc' = "exited"
    /\ UNCHANGED <<inputs, config, langs, totalXp, i, session, network, error,
                   summary, errorPrinted, hintPrinted>>

Next ==
    \/ Start
    \/ LangResponse
    \/ SessionResponse
    \/ Sleep1Done
    \/ FinalResponse
    \/ Sleep2Done
    \/ Catch
    \/ Exit

Spec == Init /\ [][Next]_vars

\* ------------------------------------------------- vocabulary of the claims

\* A response with a 2xx status / whose body JSON.parse accepts.
Status2xx(r) == ~r.rejected /\ 200 <= r.status /\ r.status <= 299
Parsable(r) == JSONParse(r.text) # SyntaxError
Succeeded(r) == Status2xx(r) /\ Parsable(r)

\* The body is a JSON document with fields (not the JSON value null).
ObjectBody(r) == Succeeded(r) /\ JSONParse(r.text) # Null

\* Field k of a body, Undefined when the body has none.
BodyField(r, k) ==
    IF JSONParse(r.text).t = "obj" THEN GetField(JSONParse(r.text), k) ELSE Undefined
MissingOrEmpty(v) == v.t # "str" \/ v.s = ""

\* The language lookup succeeded: 2xx, JSON, both languages present.
LangSucceeded ==
    /\ Len(responses) >= 1
    /\ Succeeded(responses[1])
    /\ ~MissingOrEmpty(BodyField(responses[1], "fromLanguage"))
    /\ ~MissingOrEmpty(BodyField(responses[1], "learningLanguage"))

Count(method) == Cardinality({k \in 1..Len(requests) : requests[k].method = method})

\* One GET, then n times POST, PUT.
AlternatesFor(n) ==
    /\ Len(requests) = 1 + 2 * n
    /\ requests[1].method = "GET"
    /\ \A k \in 1..(2 * n) : requests[k + 1].method = IF k % 2 = 1 THEN "POST" ELSE "PUT"

\* The run has ended in one of the two ways it can.
Aborted == pc \in {"rejected", "caught", "exited"} /\ error # NoError
Ended == pc = "exited"

\* The error kinds of the specification, by the place in main() that throws.
MissingCredential == error.site = "noJWT"
MalformedToken == error.site = "decodeToken"
HttpError == error.site \in {"langStatus", "sessionStatus", "finalStatus"}
ProtocolError == error.site \in {"langParse", "sessionParse", "finalParse"}
IncompleteProfile == error.site = "langFields"

\* The experience field of a completion body, absent or null counting as 0.
XpField(r) ==
    LET x == BodyField(r, "xpGain") IN IF x.t = "num" THEN x.n ELSE 0

\* The answers to the complete-session requests that the run went on from, in order.
CompletedLessons ==
    SelectSeq([k \in 1..Len(responses) |-> [req |-> requests[k], res |-> responses[k]]],
              LAMBDA p : p.req.method = "PUT" /\ ObjectBody(p.res))

RECURSIVE SumXp(_)
SumXp(ps) == IF ps = <<>> THEN 0 ELSE XpField(Head(ps).res) + SumXp(Tail(ps))

\* ------------------------------------------------------------------ claims

\* C1: in a run where the language lookup succeeds and every session request is
\* answered 2xx with a parsable JSON body, a lesson count N >= 0 gives exactly
\* one GET followed by N times POST, PUT in strict alternation; N = 0 gives no
\* POST, no PUT and a reported total of 0.  (Stated of a run that has ended.)
C1_ExactlyNPairs ==
    ( /\ Ended
      /\ LangSucceeded
      /\ \A k \in 2..Len(responses) : Succeeded(responses[k])
      /\ ~lessonsToRun.nan
      /\ lessonsToRun.n >= 0 )
    => /\ AlternatesFor(lessonsToRun.n)
       /\ lessonsToRun.n = 0 => summary = JNum(0)

\* C1, for bodies that are JSON documents with fields: the statement holds when
\* no session answer has the body null.
C1_ExactlyNPairsForObjectBodies ==
    ( /\ Ended
      /\ LangSucceeded
      /\ \A k \in 2..Len(responses) : ObjectBody(responses[k])
      /\ ~lessonsToRun.nan
      /\ lessonsToRun.n >= 0 )
    => /\ AlternatesFor(lessonsToRun.n)
       /\ lessonsToRun.n = 0 => summary = JNum(0)

\* C2: after k completed lessons the running total is the sum of the experience
\* fields of the first k completion answers (absent or null counting as 0), and
\* a printed summary shows that sum taken over all the lessons of the run.
C2_TotalIsSum ==
    /\ totalXp = SumXp(CompletedLessons)
    /\ summary # Undefined
        => /\ summary = JNum(SumXp(CompletedLessons))
           /\ error = NoError
           /\ Len(CompletedLessons) = (IF lessonsToRun.n > 0 THEN lessonsToRun.n ELSE 0)

\* C2 witness: three lessons answered 10, 15 and no field; the summary shows 25.
C2_Witness ==
    /\ Ended
    /\ Len(CompletedLessons) = 3
    /\ CompletedLessons[1].res.text = "{\"xpGain\":10}"
    /\ CompletedLessons[2].res.text = "{\"xpGain\":15}"
    /\ CompletedLessons[3].res.text = "{}"
    /\ summary = JNum(25)

\* C3: a failing answer (no answer, a non-2xx status or a body that is not JSON)
\* to any request aborts the run and is the last thing on the network: no
\* request is made after it.  So a 403 to a POST is followed by no PUT and no POST.
C3_FailureAborts ==
    \A k \in 1..Len(responses) :
        ~Succeeded(responses[k])
            => /\ Len(requests) = k
               /\ Len(responses) = k
               /\ inflight = {}
               /\ Aborted

\* C3 witness: the second lesson's POST is answered 403 and the run has ended
\* with the four requests made until then.
C3_Witness ==
    /\ Ended
    /\ Len(requests) = 4
    /\ Len(responses) = 4
    /\ requests[4].method = "POST"
    /\ responses[4].status = 403
    /\ HttpError

C5_MalformedTokenIsFatal ==
    (pc # "start" /\ ~Falsy(DUOLINGO_JWT)) =>
        LET segs == Split(DUOLINGO_JWT.c)
            payload == JSONParse(Base64ToString(segs[2]))
        IN  IF \/ Len(segs) < 2
               \/ payload = SyntaxError
               \/ payload.t # "obj"
               \/ "sub" \notin DOMAIN payload.f
            THEN Aborted /\ MalformedToken /\ requests = <<>>
            ELSE Len(segs) = 3
                    => /\ Len(requests) >= 1
                       /\ requests[1].method = "GET"
                       /\ requests[1].path = <<"users", payload.f.sub.s>>

\* LESSONS holds a count: an optional sign and one or more digits.
NumericText(c) ==
    LET d == IF c # <<>> /\ Head(c) \in {"-", "+"} THEN Tail(c) ELSE c
    IN  d # <<>> /\ \A k \in 1..Len(d) : IsDigit(d[k])

\* C6: with LESSONS absent or not a number, and every request answered 2xx
\* with a JSON document, the run makes exactly one POST and one PUT.
C6_DefaultsToOneLesson ==
    ( /\ Ended
      /\ envLESSONS = Undefined \/ ~NumericText(envLESSONS.c)
      /\ LangSucceeded
      /\ \A k \in 2..Len(responses) : ObjectBody(responses[k]) )
    => Count("POST") = 1 /\ Count("PUT") = 1

\* C7: every PUT follows a POST of the same iteration whose answer was 2xx with
\* a session identifier in its body, and the PUT's path ends in that identifier.
C7_PutOnlyAfterIdentifier ==
    \A k \in 1..Len(requests) :
        requests[k].method = "PUT"
            => /\ requests[k - 1].method = "POST"
               /\ Succeeded(responses[k - 1])
               /\ BodyField(responses[k - 1], "id").t = "str"
               /\ requests[k].path = <<"sessions", BodyField(responses[k - 1], "id").s>>

\* C8: with no token in the environment and none on the command line the run
\* fails with MissingCredential and the network is never used; the token in use
\* is the environment's when that is set and the argument otherwise, and it is
\* the one every request carries.
C8_MissingCredential ==
    pc # "start" =>
        /\ (envJWT = Undefined /\ argvJWT = Undefined)
            => Aborted /\ MissingCredential
        /\ MissingCredential => requests = <<>> /\ responses = <<>> /\ inflight = {}
        /\ DUOLINGO_JWT = (IF envJWT # Undefined THEN envJWT ELSE argvJWT)
        /\ \A k \in 1..Len(requests) :
            requests[k].headers.Authorization = <<"Bearer ">> \o DUOLINGO_JWT.c

\* C8 witness: no token from either source; the run has ended with
\* MissingCredential and no request.
C8_Witness ==
    /\ Ended
    /\ envJWT = Undefined
    /\ argvJWT = Undefined
    /\ MissingCredential
    /\ errorPrinted
    /\ requests = <<>>

\* C9: a run that ended on a fatal error printed the error summary and exited
\* with a failure status; the total is printed only in runs without a fatal
\* error, which exit with status 0.
C9_FailureExitStatus ==
    Ended =>
        /\ error # NoError => errorPrinted /\ exitStatus # JNum(0)
        /\ summary # Undefined => error = NoError /\ exitStatus = JNum(0)
        /\ error = NoError => summary # Undefined /\ ~errorPrinted

\* C10: at most one request is outstanding, a request is made only once every
\* earlier one has been answered, and the running total is changed only by the
\* step that receives the answer to the current lesson's PUT, once per lesson.
C10_OneAtATime ==
    /\ [](/\ Cardinality(inflight) <= 1
          /\ Len(requests) - Len(responses) \in {0, 1}
          /\ inflight = (Len(responses) + 1)..Len(requests))
    /\ [][ /\ Len(requests') > Len(requests)
               => Len(requests') = Len(requests) + 1 /\ Len(responses') = Len(requests)
           /\ totalXp' # totalXp
               => /\ pc = "awaitFinal" /\ pc' = "sleep2"
                  /\ i' = i
                  /\ Len(responses') = Len(responses) + 1
                  /\ Len(responses') = 1 + 2 * (i + 1)
                  /\ requests[Len(responses')].method = "PUT" ]_vars

\* C10 witness: the second lesson's POST is outstanding, alone, after the first
\* lesson added 10 to the total.
C10_Witness ==
    /\ pc = "awaitSession"
    /\ i = 1
    /\ totalXp = 10
    /\ inflight = {4}
    /\ requests[4].method = "POST"

====
